---------------------------- MODULE Spec2Model ----------------------------
(***************************************************************************)
(* Auto-Analyst: the query normalizer (agent.py), the analysis             *)
(* orchestrator DataAnalysisAgent (agent.py), the query tracker            *)
(* (tracker.py), the CSV loader and validator (utils.py) and the Streamlit *)
(* script that ties them to the session state (app.py).                    *)
(*                                                                         *)
(* Text is modelled as a sequence of one-character strings, so that        *)
(* len(), lower(), strip(), startswith(), replace(), "in" and the regular  *)
(* expressions of normalize_query are computed character by character.     *)
(***************************************************************************)
EXTENDS Integers, Sequences, FiniteSets, TLC

VARIABLES
    query_history,  \* st.session_state.query_history: the tracker's entries
    ss_df,          \* st.session_state.df: the session's table, or None
    ss_agent,       \* st.session_state.agent: a DataAnalysisAgent, or None
    data_loaded,    \* st.session_state.data_loaded
    api_key,        \* the sidebar's API key widget
    uploaded_file,  \* the file uploader widget: a file, or None
    now,            \* datetime.now(), as a logical clock
    op,             \* the operation that ran last, with its arguments
    ret,            \* what that operation returned
    invoked,        \* the text that operation handed to the external agent, or None
    attempts        \* history variable: log requests since the last clear

vars == <<query_history, ss_df, ss_agent, data_loaded, api_key, uploaded_file,
          now, op, ret, invoked, attempts>>

-----------------------------------------------------------------------------
(* Python's str operations on character sequences.                          *)

UpperLetters == <<"A","B","C","D","E","F","G","H","I","J","K","L","M",
                  "N","O","P","Q","R","S","T","U","V","W","X","Y","Z">>
LowerLetters == <<"a","b","c","d","e","f","g","h","i","j","k","l","m",
                  "n","o","p","q","r","s","t","u","v","w","x","y","z">>
Digits == {"0","1","2","3","4","5","6","7","8","9"}
Range(f) == {f[i] : i \in DOMAIN f}

\* \s of re, and what str.strip() and str.split() take for white space
Whitespace == {" ", "\t", "\n", "\r"}
\* \w of re
WordChars == Range(UpperLetters) \cup Range(LowerLetters) \cup Digits \cup {"_"}

SetMin(S) == CHOOSE x \in S : \A y \in S : x <= y
SetMax(S) == CHOOSE x \in S : \A y \in S : x >= y

ToLowerChar(c) ==
    IF \E i \in 1..26 : UpperLetters[i] = c
    THEN LowerLetters[CHOOSE i \in 1..26 : UpperLetters[i] = c]
    ELSE c

Lower(s) == [i \in 1..Len(s) |-> ToLowerChar(s[i])]

Strip(s) ==
    LET keep == {i \in 1..Len(s) : s[i] \notin Whitespace}
    IN  IF keep = {} THEN <<>> ELSE SubSeq(s, SetMin(keep), SetMax(keep))

\* s[i-1:].startswith(p), with i counted from 1
StartsWithAt(s, p, i) ==
    /\ i >= 1
    /\ i + Len(p) - 1 <= Len(s)
    /\ SubSeq(s, i, i + Len(p) - 1) = p

StartsWith(s, p) == StartsWithAt(s, p, 1)

\* p in s
Contains(s, p) == \E i \in 1..(Len(s) + 1) : StartsWithAt(s, p, i)

\* s.replace(old, new): every occurrence, left to right, not overlapping
RECURSIVE ReplaceFrom(_, _, _, _)
ReplaceFrom(s, old, new, i) ==
    IF i > Len(s) THEN <<>>
    ELSE IF StartsWithAt(s, old, i)
         THEN new \o ReplaceFrom(s, old, new, i + Len(old))
         ELSE <<s[i]>> \o ReplaceFrom(s, old, new, i + 1)

Replace(s, old, new) == ReplaceFrom(s, old, new, 1)

\* the length of the longest run of characters of C that starts at s[i]
RunLen(s, i, C) ==
    LET stops == {j \in i..Len(s) : s[j] \notin C}
    IN  IF i > Len(s) THEN 0
        ELSE IF stops = {} THEN Len(s) - i + 1 ELSE SetMin(stops) - i

WordRun(s, i)  == RunLen(s, i, WordChars)
SpaceRun(s, i) == RunLen(s, i, Whitespace)
DigitRun(s, i) == RunLen(s, i, Digits)
\* "." of re matches every character but the newline
DotRun(s, i) ==
    LET stops == {j \in i..Len(s) : s[j] = "\n"}
    IN  IF i > Len(s) THEN 0
        ELSE IF stops = {} THEN Len(s) - i + 1 ELSE SetMin(stops) - i

Slice(s, i, n) == SubSeq(s, i, i + n - 1)

\* s.split(): the words between runs of white space
RECURSIVE SplitFrom(_, _)
SplitFrom(s, i) ==
    LET j == i + SpaceRun(s, i)
        n == RunLen(s, j, Range(s) \ Whitespace)
    IN  IF j > Len(s) THEN <<>> ELSE <<Slice(s, j, n)>> \o SplitFrom(s, j + n)

Split(s) == SplitFrom(s, 1)

\* sep.join(parts)
RECURSIVE Join(_, _)
Join(parts, sep) ==
    IF parts = <<>> THEN <<>>
    ELSE IF Len(parts) = 1 THEN parts[1]
    ELSE parts[1] \o sep \o Join(Tail(parts), sep)

\* Matching from a position: each operator gives the position after what it
\* matched at position i, and 0 when it does not match (or i is 0 already).

\* a literal text
Lit(s, i, p) == IF i # 0 /\ StartsWithAt(s, p, i) THEN i + Len(p) ELSE 0
\* \s+
Spaces(s, i) == IF i # 0 /\ SpaceRun(s, i) >= 1 THEN i + SpaceRun(s, i) ELSE 0
\* \w+
Word(s, i) == IF i # 0 /\ WordRun(s, i) >= 1 THEN i + WordRun(s, i) ELSE 0
\* \d+
Number(s, i) == IF i # 0 /\ DigitRun(s, i) >= 1 THEN i + DigitRun(s, i) ELSE 0
\* .+
Rest(s, i) == IF i # 0 /\ DotRun(s, i) >= 1 THEN i + DotRun(s, i) ELSE 0

\* the text matched from position i up to position j
Group(s, i, j) == SubSeq(s, i, j - 1)

\* (a|b|...): the first of the alternatives alts (a sequence) that s continues
\* with at i and that is followed by the text after; 0 when there is none
FirstAlt(s, i, alts, after) ==
    IF {k \in 1..Len(alts) : StartsWithAt(s, alts[k] \o after, i)} = {} THEN 0
    ELSE SetMin({k \in 1..Len(alts) : StartsWithAt(s, alts[k] \o after, i)})

\* the position after that alternative and the text after it
AltEnd(s, i, alts, after) ==
    IF FirstAlt(s, i, alts, after) = 0 THEN 0
    ELSE i + Len(alts[FirstAlt(s, i, alts, after)]) + Len(after)

\* (?:the\s+)? before a literal that does not begin with "the"
OptThe(s, i) ==
    IF Spaces(s, Lit(s, i, <<"t","h","e">>)) # 0
    THEN Spaces(s, Lit(s, i, <<"t","h","e">>)) ELSE i

\* an optional part that ends at j, before (\w+): the part is taken when a
\* word follows it, and skipped otherwise
SkipIfWord(s, i, j) == IF Word(s, j) # 0 THEN j ELSE i
\* the same before (.+)
SkipIfRest(s, i, j) == IF Rest(s, j) # 0 THEN j ELSE i

NoMatch == [ok |-> FALSE]

-----------------------------------------------------------------------------
(* agent.py, normalize_query: the regular expressions, each matched with    *)
(* re.match (anchored at the start) against question_lower.  A match is a   *)
(* record with ok = TRUE and its groups.                                    *)

\* ^how many (\w+) in each (\w+), with a and c where the two groups start
HowManyGroupedAt(ql, a, c) ==
    IF Word(ql, c) = 0 THEN NoMatch
    ELSE [ok |-> TRUE, item |-> Group(ql, a, Word(ql, a)),
          group |-> Group(ql, c, Word(ql, c))]

how_many_grouped(ql) ==
    HowManyGroupedAt(ql, Lit(ql, 1, <<"h","o","w"," ","m","a","n","y"," ">>),
        Lit(ql, Word(ql, Lit(ql, 1, <<"h","o","w"," ","m","a","n","y"," ">>)), <<" ","i","n"," ","e","a","c","h"," ">>))

\* (operation) (column), with a and b where the two groups start
CalcAt(ql, a, b) ==
    IF Word(ql, b) = 0 THEN NoMatch
    ELSE [ok |-> TRUE, operation |-> Group(ql, a, b - 1),
          column |-> Group(ql, b, Word(ql, b))]

\* ^how much is the (total|average|sum|mean) (\w+)
how_much_ops == <<<<"t","o","t","a","l">>, <<"a","v","e","r","a","g","e">>, <<"s","u","m">>, <<"m","e","a","n">>>>
how_much_pattern(ql) ==
    CalcAt(ql, Lit(ql, 1, <<"h","o","w"," ","m","u","c","h"," ","i","s"," ","t","h","e"," ">>),
        AltEnd(ql, Lit(ql, 1, <<"h","o","w"," ","m","u","c","h"," ","i","s"," ","t","h","e"," ">>), how_much_ops, <<" ">>))

\* ^what is the (average|sum|total|mean|median|max|min|maximum|minimum) (?:of )?(\w+)
what_calc_ops == <<<<"a","v","e","r","a","g","e">>, <<"s","u","m">>, <<"t","o","t","a","l">>, <<"m","e","a","n">>, <<"m","e","d","i","a","n">>, <<"m","a","x">>,
                   <<"m","i","n">>, <<"m","a","x","i","m","u","m">>, <<"m","i","n","i","m","u","m">>>>
WhatCalcAt(ql, a, b) ==
    IF Word(ql, SkipIfWord(ql, b, Lit(ql, b, <<"o","f"," ">>))) = 0 THEN NoMatch
    ELSE [ok |-> TRUE, operation |-> Group(ql, a, b - 1),
          column |-> Group(ql, SkipIfWord(ql, b, Lit(ql, b, <<"o","f"," ">>)),
                           Word(ql, SkipIfWord(ql, b, Lit(ql, b, <<"o","f"," ">>))))]
what_calc_pattern(ql) ==
    WhatCalcAt(ql, Lit(ql, 1, <<"w","h","a","t"," ","i","s"," ","t","h","e"," ">>),
        AltEnd(ql, Lit(ql, 1, <<"w","h","a","t"," ","i","s"," ","t","h","e"," ">>), what_calc_ops, <<" ">>))

\* a pattern that ends with one group (\w+), which starts at a
WordAt(ql, a) ==
    IF Word(ql, a) = 0 THEN NoMatch
    ELSE [ok |-> TRUE, column |-> Group(ql, a, Word(ql, a)), end |-> Word(ql, a)]

\* ^what are the (\w+)
what_are_pattern(ql) == WordAt(ql, Lit(ql, 1, <<"w","h","a","t"," ","a","r","e"," ","t","h","e"," ">>))

\* ^where (?:is|are) (\w+)
where_pattern(ql) ==
    WordAt(ql, AltEnd(ql, Lit(ql, 1, <<"w","h","e","r","e"," ">>), <<<<"i","s">>, <<"a","r","e">>>>, <<" ">>))

\* (action) (?:me )?(.+), with a where the action starts, b where it has ended
\* and c where the rest starts
ActionRestAt(ql, a, b, c) ==
    IF Rest(ql, c) = 0 THEN NoMatch
    ELSE [ok |-> TRUE, action |-> Group(ql, a, b - 1),
          rest |-> Group(ql, c, Rest(ql, c))]

\* ^can you (show|give|get|find|display) (?:me )?(.+)
can_you_actions == <<<<"s","h","o","w">>, <<"g","i","v","e">>, <<"g","e","t">>, <<"f","i","n","d">>, <<"d","i","s","p","l","a","y">>>>
CanYouAt(ql, a, b) == ActionRestAt(ql, a, b, SkipIfRest(ql, b, Lit(ql, b, <<"m","e"," ">>)))
can_you_pattern(ql) ==
    CanYouAt(ql, Lit(ql, 1, <<"c","a","n"," ","y","o","u"," ">>),
        AltEnd(ql, Lit(ql, 1, <<"c","a","n"," ","y","o","u"," ">>), can_you_actions, <<" ">>))

\* ^i want to (see|know|find|get) (.+)
i_want_actions == <<<<"s","e","e">>, <<"k","n","o","w">>, <<"f","i","n","d">>, <<"g","e","t">>>>
IWantAt(ql, a, b) == ActionRestAt(ql, a, b, b)
i_want_pattern(ql) ==
    IWantAt(ql, Lit(ql, 1, <<"i"," ","w","a","n","t"," ","t","o"," ">>),
        AltEnd(ql, Lit(ql, 1, <<"i"," ","w","a","n","t"," ","t","o"," ">>), i_want_actions, <<" ">>))

\* ^(?:which|who|what)\s+(?:has|have)\s+(?:the\s+)?<keyword>\s+(\w+)
\* ("has" is tried before "have" and is no prefix of it)
AfterHasHave(ql) ==
    Spaces(ql, AltEnd(ql,
        Spaces(ql, AltEnd(ql, 1, <<<<"w","h","i","c","h">>, <<"w","h","o">>, <<"w","h","a","t">>>>, <<>>)),
        <<<<"h","a","s">>, <<"h","a","v","e">>>>, <<>>))
max_min_pattern(ql, keyword) ==
    WordAt(ql, Spaces(ql, Lit(ql, OptThe(ql, AfterHasHave(ql)), keyword)))

\* the four (pattern, replacement) pairs of patterns_max_min, in order
patterns_max_min ==
    << [keyword |-> <<"h","i","g","h","e","s","t">>, tail |-> <<" ","i","s"," ","m","a","x","i","m","u","m">>],
       [keyword |-> <<"l","o","w","e","s","t">>,  tail |-> <<" ","i","s"," ","m","i","n","i","m","u","m">>],
       [keyword |-> <<"m","a","x">>,     tail |-> <<" ","i","s"," ","m","a","x","i","m","u","m">>],
       [keyword |-> <<"m","i","n">>,     tail |-> <<" ","i","s"," ","m","i","n","i","m","u","m">>] >>

\* (\d+) ... (\w+), with a and d where the two groups start
TopAt(ql, a, d) ==
    IF Word(ql, d) = 0 THEN NoMatch
    ELSE [ok |-> TRUE, n |-> Group(ql, a, Number(ql, a)),
          column |-> Group(ql, d, Word(ql, d))]

\* ^top\s+(\d+)\s+(?:by\s+)?(\w+)
TopColumnAt(ql, c) == SkipIfWord(ql, c, Spaces(ql, Lit(ql, c, <<"b","y">>)))
TopFrom(ql, a) == TopAt(ql, a, TopColumnAt(ql, Spaces(ql, Number(ql, a))))
top_pattern(ql) == TopFrom(ql, Spaces(ql, Lit(ql, 1, <<"t","o","p">>)))

\* ^sort\s+(?:the\s+)?top\s+(\d+)\s+(?:by|rows by)\s+(\w+)
SortTopFrom(ql, a) ==
    TopAt(ql, a,
        Spaces(ql, AltEnd(ql, Spaces(ql, Number(ql, a)),
                          <<<<"b","y">>, <<"r","o","w","s"," ","b","y">>>>, <<>>)))
sort_top_pattern(ql) ==
    SortTopFrom(ql,
        Spaces(ql, Lit(ql, OptThe(ql, Spaces(ql, Lit(ql, 1, <<"s","o","r","t">>))), <<"t","o","p">>)))

\* ^(\w+)\s+(?:department|employees|workers)
dept_words == <<<<"d","e","p","a","r","t","m","e","n","t">>, <<"e","m","p","l","o","y","e","e","s">>, <<"w","o","r","k","e","r","s">>>>
DeptAt(ql, w) ==
    IF FirstAlt(ql, Spaces(ql, w), dept_words, <<>>) = 0 THEN NoMatch
    ELSE [ok |-> TRUE, dept |-> Group(ql, 1, w)]
dept_pattern(ql) == DeptAt(ql, Word(ql, 1))

-----------------------------------------------------------------------------
(* normalize_query: the rewrites, in the order of the code.  Each takes the *)
(* question as rewritten so far and question_lower (ql); where it uses a    *)
(* match, the match is the parameter m of the operator before it.           *)

\* Pattern 0 and 0b (if / elif)
Rewrite0(question, ql, m) ==
    IF m.ok THEN <<"c","o","u","n","t"," ">> \o m.item \o <<" ","i","n"," ","e","a","c","h"," ">> \o m.group
    ELSE IF StartsWith(ql, <<"h","o","w"," ","m","a","n","y"," ">>)
    THEN <<"c","o","u","n","t"," ","t","o","t","a","l"," ","n","u","m","b","e","r"," ","o","f"," ">> \o Strip(Replace(ql, <<"h","o","w"," ","m","a","n","y"," ">>, <<>>))
    ELSE question
Pattern0(question, ql) == Rewrite0(question, ql, how_many_grouped(ql))

\* Pattern 0c
Rewrite0c(question, m) ==
    IF m.ok THEN <<"c","a","l","c","u","l","a","t","e"," ","t","h","e"," ">> \o m.operation \o <<" ","o","f"," ">> \o m.column
    ELSE question
Pattern0c(question, ql) == Rewrite0c(question, how_much_pattern(ql))

\* Pattern 0d
Rewrite0d(question, m) ==
    IF ~ m.ok THEN question
    ELSE IF m.operation \in {<<"m","a","x">>, <<"m","a","x","i","m","u","m">>}
    THEN <<"s","h","o","w"," ","t","h","e"," ","r","o","w"," ","w","h","e","r","e"," ">> \o m.column \o <<" ","i","s"," ","m","a","x","i","m","u","m">>
    ELSE IF m.operation \in {<<"m","i","n">>, <<"m","i","n","i","m","u","m">>}
    THEN <<"s","h","o","w"," ","t","h","e"," ","r","o","w"," ","w","h","e","r","e"," ">> \o m.column \o <<" ","i","s"," ","m","i","n","i","m","u","m">>
    ELSE <<"c","a","l","c","u","l","a","t","e"," ","t","h","e"," ">> \o m.operation \o <<" ","o","f"," ">> \o m.column
Pattern0d(question, ql) == Rewrite0d(question, what_calc_pattern(ql))

\* Pattern 0e
Rewrite0e(question, ql, m) ==
    IF m.ok /\ ~ Contains(ql, <<"u","n","i","q","u","e">>)
    THEN <<"s","h","o","w"," ","u","n","i","q","u","e"," ","v","a","l","u","e","s"," ","i","n"," ">> \o m.column \o <<" ","c","o","l","u","m","n">>
    ELSE question
Pattern0e(question, ql) == Rewrite0e(question, ql, what_are_pattern(ql))

\* Pattern 0f
Pattern0f(question, ql) ==
    IF where_pattern(ql).ok
    THEN <<"s","h","o","w"," ","r","o","w","s"," ","w","h","e","r","e"," ">>
             \o Replace(Replace(ql, <<"w","h","e","r","e"," ","i","s"," ">>, <<>>), <<"w","h","e","r","e"," ","a","r","e"," ">>, <<>>)
    ELSE question

\* Pattern 0g
Rewrite0g(question, m) == IF m.ok THEN m.action \o <<" ">> \o m.rest ELSE question
Pattern0g(question, ql) == Rewrite0g(question, can_you_pattern(ql))

\* Pattern 0h
Rewrite0h(question, m) == IF m.ok THEN <<"s","h","o","w"," ">> \o m.rest ELSE question
Pattern0h(question, ql) == Rewrite0h(question, i_want_pattern(ql))

\* Pattern 0i
Pattern0i(question, ql) ==
    IF StartsWith(ql, <<"t","e","l","l"," ","m","e"," ">>)
    THEN <<"s","h","o","w"," ">> \o Replace(ql, <<"t","e","l","l"," ","m","e"," ">>, <<>>)
    ELSE question

\* Pattern 0j
Pattern0j(question, ql) ==
    IF StartsWith(ql, <<"g","i","v","e"," ","m","e"," ">>)
    THEN <<"s","h","o","w"," ">> \o Replace(ql, <<"g","i","v","e"," ","m","e"," ">>, <<>>)
    ELSE question

\* Pattern 1: the first of the four patterns that matches rewrites the text
\* and ends the loop; re.sub replaces the matched prefix of question_lower
\* and keeps what follows it
RECURSIVE MaxMinFrom(_, _, _)
MaxMinTry(question, ql, k, m) ==
    IF m.ok
    THEN <<"s","h","o","w"," ","t","h","e"," ","r","o","w"," ","w","h","e","r","e"," ">> \o m.column \o patterns_max_min[k].tail
             \o SubSeq(ql, m.end, Len(ql))
    ELSE MaxMinFrom(question, ql, k + 1)
MaxMinFrom(question, ql, k) ==
    IF k > Len(patterns_max_min) THEN question
    ELSE MaxMinTry(question, ql, k,
                   max_min_pattern(ql, patterns_max_min[k].keyword))
Pattern1(question, ql) == MaxMinFrom(question, ql, 1)

\* Pattern 2 and Pattern 3 write the same text
SortRewrite(question, m) ==
    IF m.ok
    THEN <<"s","o","r","t"," ","b","y"," ">> \o m.column \o <<" ","d","e","s","c","e","n","d","i","n","g"," ","a","n","d"," ","s","h","o","w"," ","f","i","r","s","t"," ">> \o m.n \o <<" ","r","o","w","s">>
    ELSE question
Pattern2(question, ql) == SortRewrite(question, top_pattern(ql))
Pattern3(question, ql) == SortRewrite(question, sort_top_pattern(ql))

\* Pattern 4
Rewrite4(question, ql, words) ==
    IF StartsWith(ql, <<"a","v","e","r","a","g","e"," ">>) /\ Len(words) = 2
    THEN <<"c","a","l","c","u","l","a","t","e"," ","t","h","e"," ","a","v","e","r","a","g","e"," ","o","f"," ">> \o words[2]
    ELSE question
Pattern4(question, ql) == Rewrite4(question, ql, Split(question))

\* Pattern 5
Rewrite5(question, ql, m) ==
    IF m.ok /\ ~ StartsWith(ql, <<"s","h","o","w">>)
    THEN <<"s","h","o","w"," ","a","l","l"," ","r","o","w","s"," ","w","h","e","r","e"," ","d","e","p","a","r","t","m","e","n","t"," ","e","q","u","a","l","s"," ">> \o m.dept
    ELSE question
Pattern5(question, ql) == Rewrite5(question, ql, dept_pattern(ql))

\* Pattern 6: the exact-match idioms
oldest_idioms   == {<<"o","l","d","e","s","t">>, <<"w","h","o"," ","i","s"," ","o","l","d","e","s","t">>, <<"o","l","d","e","s","t"," ","e","m","p","l","o","y","e","e">>, <<"w","h","o"," ","i","s"," ","t","h","e"," ","o","l","d","e","s","t">>}
youngest_idioms == {<<"y","o","u","n","g","e","s","t">>, <<"w","h","o"," ","i","s"," ","y","o","u","n","g","e","s","t">>, <<"y","o","u","n","g","e","s","t"," ","e","m","p","l","o","y","e","e">>,
                    <<"w","h","o"," ","i","s"," ","t","h","e"," ","y","o","u","n","g","e","s","t">>}
best_idioms     == {<<"b","e","s","t"," ","p","e","r","f","o","r","m","e","r">>, <<"b","e","s","t"," ","e","m","p","l","o","y","e","e">>, <<"h","i","g","h","e","s","t"," ","p","e","r","f","o","r","m","e","r">>,
                    <<"w","h","o"," ","i","s"," ","t","h","e"," ","b","e","s","t">>}
Pattern6(question, ql) ==
    IF ql \in oldest_idioms THEN <<"s","h","o","w"," ","t","h","e"," ","r","o","w"," ","w","h","e","r","e"," ","a","g","e"," ","i","s"," ","m","a","x","i","m","u","m">>
    ELSE IF ql \in youngest_idioms THEN <<"s","h","o","w"," ","t","h","e"," ","r","o","w"," ","w","h","e","r","e"," ","a","g","e"," ","i","s"," ","m","i","n","i","m","u","m">>
    ELSE IF ql \in best_idioms
    THEN <<"s","h","o","w"," ","t","h","e"," ","r","o","w"," ","w","h","e","r","e"," ","p","e","r","f","o","r","m","a","n","c","e","_","s","c","o","r","e"," ","i","s"," ","m","a","x","i","m","u","m">>
    ELSE question

\* Pattern 7: "show" is put in front of a text with a sorting or filtering
\* word and no action word at its start
action_words == <<<<"s","h","o","w">>, <<"d","i","s","p","l","a","y">>, <<"g","e","t">>, <<"f","i","n","d">>, <<"c","a","l","c","u","l","a","t","e">>, <<"l","i","s","t">>, <<"c","o","u","n","t">>>>
filter_words == <<<<"s","o","r","t">>, <<"f","i","l","t","e","r">>, <<"w","h","e","r","e">>, <<"g","r","o","u","p">>>>
Pattern7(question, ql) ==
    IF /\ ~ \E k \in 1..Len(action_words) : StartsWith(ql, action_words[k])
       /\ \E k \in 1..Len(filter_words) : Contains(ql, filter_words[k])
    THEN <<"s","h","o","w"," ">> \o question
    ELSE question

\* Pattern 8: the replacements dict, in insertion order
replacements ==
    << <<<<" ","e","x","p"," ">>,  <<" ","e","x","p","e","r","i","e","n","c","e"," ">>>>,
       <<<<" ","p","e","r","f"," ">>, <<" ","p","e","r","f","o","r","m","a","n","c","e"," ">>>>,
       <<<<" ","d","e","p","t"," ">>, <<" ","d","e","p","a","r","t","m","e","n","t"," ">>>>,
       <<<<" ","s","a","l"," ">>,  <<" ","s","a","l","a","r","y"," ">>>>,
       <<<<" ","a","v","g"," ">>,  <<" ","a","v","e","r","a","g","e"," ">>>> >>

RECURSIVE ReplaceAbbreviations(_, _)
ReplaceAbbreviations(question, k) ==
    IF k > Len(replacements) THEN question
    ELSE ReplaceAbbreviations(
             Replace(question, replacements[k][1], replacements[k][2]), k + 1)
Pattern8(question) == ReplaceAbbreviations(question, 1)

\* the rewrites in sequence, from the stripped question and its lower case
Patterns(question, ql) ==
    Pattern8(Pattern7(Pattern6(Pattern5(Pattern4(Pattern3(Pattern2(Pattern1(
    Pattern0j(Pattern0i(Pattern0h(Pattern0g(Pattern0f(Pattern0e(Pattern0d(
    Pattern0c(Pattern0(question, ql),
    ql), ql), ql), ql), ql), ql), ql), ql), ql), ql), ql), ql), ql), ql), ql))

normalize_query(raw) == Patterns(Strip(raw), Lower(Strip(raw)))

-----------------------------------------------------------------------------
(* Python values whose type is not fixed: None, and a str tagged as such.   *)

None == [type |-> "NoneType"]
PyStr(s) == [type |-> "str", val |-> s]

-----------------------------------------------------------------------------
(* tracker.py, QueryTracker: operations on st.session_state.query_history   *)

log_query_overwriting(history, query, success, error_msg, timestamp) ==
    IF history = <<>>
    THEN <<[timestamp |-> timestamp, query |-> query, success |-> success,
            error |-> error_msg]>>
    ELSE [history EXCEPT ![Len(history)] =
             [timestamp |-> timestamp, query |-> query, success |-> success,
              error |-> error_msg]]
log_query(history, query, success, error_msg, timestamp) ==
    Append(history, [timestamp |-> timestamp, query |-> query,
                     success |-> success, error |-> error_msg])

\* the float (successful / total) * 100, as the exact fraction num / den
get_success_rate_of_failures(history) ==
    IF history = <<>> THEN [num |-> 0, den |-> 1]
    ELSE [num |-> Cardinality({i \in 1..Len(history) : ~ history[i].success}) * 100,
          den |-> Len(history)]
get_success_rate(history) ==
    IF history = <<>> THEN [num |-> 0, den |-> 1]
    ELSE LET successful == Cardinality({i \in 1..Len(history) : history[i].success})
             total      == Len(history)
         IN  [num |-> successful * 100, den |-> total]

get_total_queries(history) == Len(history)

\* list[start:], Python's slice from a signed start index
SliceFrom(list, start) ==
    LET from == IF start < 0
                THEN IF start + Len(list) < 0 THEN 0 ELSE start + Len(list)
                ELSE IF start > Len(list) THEN Len(list) ELSE start
    IN  SubSeq(list, from + 1, Len(list))

get_recent_queries(history, n) == SliceFrom(history, 0 - n)

clear_history_keeping_first(history) == IF history = <<>> THEN <<>> ELSE <<history[1]>>
clear_history(history) == <<>>

get_failure_queries(history) == SelectSeq(history, LAMBDA q : ~ q.success)

-----------------------------------------------------------------------------
(* utils.py: the CSV loader and the validator.  A table is a record of its  *)
(* column names and its rows; a cell is None when it is null.  An uploaded  *)
(* file gives, for each encoding, what pd.read_csv does with it.            *)

encodings == <<"utf-8", "latin-1", "iso-8859-1", "cp1252">>

normalize_column_names(df) ==
    [df EXCEPT !.columns =
        [i \in 1..Len(df.columns) |->
            Replace(Lower(Strip(df.columns[i])), <<" ">>, <<"_">>)]]

load_csv_file(file) ==
    LET parsed == {k \in 1..Len(encodings) : file.read_csv[encodings[k]].kind = "ok"}
    IN  IF file = None THEN None
        ELSE IF parsed = {} THEN None
        ELSE normalize_column_names(file.read_csv[encodings[SetMin(parsed)]].df)

\* df.empty: some axis has length 0
IsEmpty(df) == Len(df.rows) = 0 \/ Len(df.columns) = 0

\* df.isnull().all().all()
AllNull(df) ==
    \A r \in 1..Len(df.rows) : \A c \in 1..Len(df.columns) : df.rows[r][c] = None

\* the validator without its all-null test
validate_dataframe_without_null_test(df) ==
    IF df = None THEN <<FALSE, <<"D","a","t","a","f","r","a","m","e"," ","i","s"," ","N","o","n","e">>>>
    ELSE IF IsEmpty(df) THEN <<FALSE, <<"D","a","t","a","f","r","a","m","e"," ","i","s"," ","e","m","p","t","y">>>>
    ELSE IF Len(df.columns) = 0 THEN <<FALSE, <<"N","o"," ","c","o","l","u","m","n","s"," ","f","o","u","n","d">>>>
    ELSE <<TRUE, <<>>>>
validate_dataframe(df) ==
    IF df = None THEN <<FALSE, <<"D","a","t","a","f","r","a","m","e"," ","i","s"," ","N","o","n","e">>>>
    ELSE IF IsEmpty(df) THEN <<FALSE, <<"D","a","t","a","f","r","a","m","e"," ","i","s"," ","e","m","p","t","y">>>>
    ELSE IF Len(df.columns) = 0 THEN <<FALSE, <<"N","o"," ","c","o","l","u","m","n","s"," ","f","o","u","n","d">>>>
    ELSE IF AllNull(df) THEN <<FALSE, <<"A","l","l"," ","v","a","l","u","e","s"," ","a","r","e"," ","n","u","l","l">>>>
    ELSE <<TRUE, <<>>>>

-----------------------------------------------------------------------------
(* agent.py, DataAnalysisAgent.  The external agent (the LangChain pandas   *)
(* agent behind self.agent) is the environment: invoke either returns a     *)
(* value or raises an Exception whose str() is some text.                   *)

\* __init__
NewDataAnalysisAgent(key) ==
    [api_key |-> key, model_name |-> "llama-3.3-70b-versatile",
     agent |-> None, df |-> None]

\* initialize_agent: self.df and the agent created over df
initialize_agent(self, df) ==
    [self EXCEPT !.df = df,
                 !.agent = [type |-> "AgentExecutor", temperature |-> 0,
                            model_name |-> self.model_name, df |-> df]]

\* len(normalized_question) > len(question) * 0.7, with m and n the two
\* lengths.  The product is an IEEE-754 double: 0.7 is stored as
\* 0.6999999999999999556, and for n below 330 the rounded product is the
\* exact 7n/10 except at n = 90, 170 and 180, where it is the double just
\* below the integer 7n/10, so that m = 7n/10 compares greater.
FloatProductBelow == {90, 170, 180}
ExceedsRatio(m, n) ==
    \/ 10 * m > 7 * n
    \/ 10 * m = 7 * n /\ n \in FloatProductBelow

\* the question after the acceptance test of the normalized form
Accept(question, normalized_question) ==
    IF /\ normalized_question # question
       /\ ExceedsRatio(Len(normalized_question), Len(question))
    THEN normalized_question
    ELSE question
AcceptNormalized(question) == Accept(question, normalize_query(question))

cue_words == <<<<"s","h","o","w">>, <<"d","i","s","p","l","a","y">>, <<"g","e","t">>, <<"f","i","n","d">>, <<"s","o","r","t">>, <<"f","i","l","t","e","r">>, <<"c","a","l","c","u","l","a","t","e">>>>

\* enhanced_question
Enhance(question) ==
    IF \E k \in 1..Len(cue_words) : Contains(Lower(question), cue_words[k])
    THEN question
    ELSE <<"S","h","o","w"," ","m","e",":"," ">> \o question

\* the output taken out of what invoke returned
ExtractOutput(result) ==
    IF result.type = "dict"
    THEN IF "output" \in DOMAIN result.items THEN result.items["output"]
         ELSE IF "result" \in DOMAIN result.items THEN result.items["result"]
         ELSE result
    ELSE result

NoOutputText == <<"Q","u","e","r","y"," ","e","x","e","c","u","t","e","d"," ","s","u","c","c","e","s","s","f","u","l","l","y"," ","b","u","t"," ","r","e","t","u","r","n","e","d"," ","n","o"," ","o","u","t","p","u","t",".">>

IsBlank(output) ==
    output = None \/ (output.type = "str" /\ Strip(output.val) = <<>>)
SuccessResult(result) ==
    [success |-> TRUE,
     result  |-> IF IsBlank(ExtractOutput(result)) THEN PyStr(NoOutputText)
                 ELSE ExtractOutput(result),
     error   |-> None]

ErrorCap == 200

\* the clean-up with the "parsing" test ahead of the "column ... not found" test
CleanError_parsing_first(self, raw) ==
    IF Contains(raw, <<"C","o","u","l","d"," ","n","o","t"," ","p","a","r","s","e"," ","L","L","M"," ","o","u","t","p","u","t">>)
    THEN <<"T","h","e"," ","A","I"," ","i","s"," ","h","a","v","i","n","g"," ","t","r","o","u","b","l","e"," ","u","n","d","e","r","s","t","a","n","d","i","n","g"," ","t","h","i","s"," ","q","u","e","r","y","."," ","T","r","y"," ","u","s","i","n","g"," ","s","i","m","p","l","e","r"," ","p","h","r","a","s","i","n","g"," ","l","i","k","e"," ","'","s","h","o","w"," ","f","i","r","s","t"," ","5"," ","r","o","w","s","'"," ","o","r"," ","'","c","a","l","c","u","l","a","t","e"," ","a","v","e","r","a","g","e"," ","s","a","l","a","r","y","'",".">>
    ELSE IF Contains(Lower(raw), <<"p","a","r","s","i","n","g">>)
    THEN <<"Q","u","e","r","y"," ","f","o","r","m","a","t"," ","i","s","s","u","e","."," ","T","r","y"," ","r","e","p","h","r","a","s","i","n","g"," ","m","o","r","e"," ","s","i","m","p","l","y",","," ","l","i","k","e"," ","'","s","h","o","w"," ","r","o","w","s"," ","w","h","e","r","e"," ","s","a","l","a","r","y"," ",">"," ","8","0","0","0","0","'",".">>
    ELSE IF Contains(Lower(raw), <<"c","o","l","u","m","n">>) /\ Contains(Lower(raw), <<"n","o","t"," ","f","o","u","n","d">>)
    THEN <<"C","o","l","u","m","n"," ","n","o","t"," ","f","o","u","n","d","."," ","A","v","a","i","l","a","b","l","e"," ","c","o","l","u","m","n","s"," ","a","r","e",":"," ">> \o Join(self.df.columns, <<","," ">>)
    ELSE IF Len(raw) > ErrorCap
    THEN SubSeq(raw, 1, ErrorCap) \o <<".",".","."," ","(","T","r","y"," ","a"," ","s","i","m","p","l","e","r"," ","q","u","e","r","y",")">>
    ELSE raw

\* the except branch: str(e) cleaned up
CleanError(self, raw) ==
    IF Contains(raw, <<"C","o","u","l","d"," ","n","o","t"," ","p","a","r","s","e"," ","L","L","M"," ","o","u","t","p","u","t">>)
    THEN <<"T","h","e"," ","A","I"," ","i","s"," ","h","a","v","i","n","g"," ","t","r","o","u","b","l","e"," ","u","n","d","e","r","s","t","a","n","d","i","n","g"," ","t","h","i","s"," ","q","u","e","r","y","."," ","T","r","y"," ","u","s","i","n","g"," ","s","i","m","p","l","e","r"," ","p","h","r","a","s","i","n","g"," ","l","i","k","e"," ","'","s","h","o","w"," ","f","i","r","s","t"," ","5"," ","r","o","w","s","'"," ","o","r"," ","'","c","a","l","c","u","l","a","t","e"," ","a","v","e","r","a","g","e"," ","s","a","l","a","r","y","'",".">>
    ELSE IF Contains(Lower(raw), <<"c","o","l","u","m","n">>) /\ Contains(Lower(raw), <<"n","o","t"," ","f","o","u","n","d">>)
    THEN <<"C","o","l","u","m","n"," ","n","o","t"," ","f","o","u","n","d","."," ","A","v","a","i","l","a","b","l","e"," ","c","o","l","u","m","n","s"," ","a","r","e",":"," ">> \o Join(self.df.columns, <<","," ">>)
    ELSE IF Contains(Lower(raw), <<"p","a","r","s","i","n","g">>)
    THEN <<"Q","u","e","r","y"," ","f","o","r","m","a","t"," ","i","s","s","u","e","."," ","T","r","y"," ","r","e","p","h","r","a","s","i","n","g"," ","m","o","r","e"," ","s","i","m","p","l","y",","," ","l","i","k","e"," ","'","s","h","o","w"," ","r","o","w","s"," ","w","h","e","r","e"," ","s","a","l","a","r","y"," ",">"," ","8","0","0","0","0","'",".">>
    ELSE IF Len(raw) > ErrorCap
    THEN SubSeq(raw, 1, ErrorCap) \o <<".",".","."," ","(","T","r","y"," ","a"," ","s","i","m","p","l","e","r"," ","q","u","e","r","y",")">>
    ELSE raw

NotInitializedText == <<"A","g","e","n","t"," ","n","o","t"," ","i","n","i","t","i","a","l","i","z","e","d","."," ","P","l","e","a","s","e"," ","u","p","l","o","a","d"," ","a"," ","C","S","V"," ","f","i","r","s","t",".">>

\* query: the dict returned, and the text handed to self.agent.invoke
\* (None when invoke is not called).  outcome is what invoke does.
Invoke(self, enhanced_question, outcome) ==
    IF outcome.kind = "return"
    THEN [return  |-> SuccessResult(outcome.value),
          invoked |-> PyStr(enhanced_question)]
    ELSE [return  |-> [success |-> FALSE, result |-> None,
                       error |-> PyStr(CleanError(self, outcome.message))],
          invoked |-> PyStr(enhanced_question)]

query_unguarded(self, question, outcome) ==
    IF self.agent = None
    THEN [return  |-> [success |-> FALSE, result |-> None,
                       error |-> PyStr(<<"'","N","o","n","e","T","y","p","e","'"," ","o","b","j","e","c","t"," ","h","a","s"," ","n","o"," ","a","t","t","r","i","b","u","t","e"," ","'","i","n","v","o","k","e","'">>)],
          invoked |-> None]
    ELSE Invoke(self, Enhance(AcceptNormalized(question)), outcome)
query(self, question, outcome) ==
    IF self.agent = None
    THEN [return  |-> [success |-> FALSE, result |-> None,
                       error |-> PyStr(NotInitializedText)],
          invoked |-> None]
    ELSE Invoke(self, Enhance(AcceptNormalized(question)), outcome)

-----------------------------------------------------------------------------
(* app.py: one run of the Streamlit script, top to bottom, for one event.   *)

\* the upload step storing the loaded table before it is validated
Uploaded_storing_before_validation(df, loaded, table) ==
    IF table # None THEN <<table, loaded \/ validate_dataframe(table)[1]>>
    ELSE <<df, loaded>>
\* render_data_upload: the session's table and data_loaded after the step,
\* with table what load_csv_file returned
Uploaded(df, loaded, table) ==
    IF table # None /\ validate_dataframe(table)[1] THEN <<table, TRUE>>
    ELSE <<df, loaded>>
UploadStep(df, loaded, file) ==
    IF file = None THEN <<df, loaded>>
    ELSE Uploaded(df, loaded, load_csv_file(file))

\* render_query_interface, "Initialize agent if needed"
AgentStep(agent, loaded, df, key) ==
    IF loaded /\ agent = None /\ key # ""
    THEN initialize_agent(NewDataAnalysisAgent(key), df)
    ELSE agent

\* the steps every run takes: upload, then the agent's initialisation
Ran(file, key, up) ==
    /\ ss_df' = up[1]
    /\ data_loaded' = up[2]
    /\ ss_agent' = AgentStep(ss_agent, up[2], up[1], key)
    /\ api_key' = key
    /\ uploaded_file' = file
RunScript(file, key) == Ran(file, key, UploadStep(ss_df, data_loaded, file))

-----------------------------------------------------------------------------
(* Bounds and the inputs drawn from them.                                   *)

MaxLogs     == 5    \* log_query calls in a behaviour of the tracker
MaxN        == 3    \* the largest n asked of get_recent_queries
MaxAttempts == 2    \* query attempts in a behaviour of the application
MaxRows     == 3    \* the most rows of a table given to validate_dataframe
MaxCols     == 2    \* the most columns of such a table

\* tables: column names as in the file, rows of cells
Table1 == [columns |-> <<<<" ","E","m","p","l","o","y","e","e"," ","N","a","m","e"," ">>, <<"A","g","e">>>>,
           rows |-> << <<PyStr(<<"a","n","n">>), PyStr(<<"4","1">>)>> >>]
Table2 == [columns |-> <<<<"d","e","p","t">>>>,
           rows |-> << <<PyStr(<<"h","r">>)>>, <<None>> >>]
NullTable == [columns |-> <<<<"a">>>>, rows |-> << <<None>> >>]

Parsed(df)    == [kind |-> "ok", df |-> df]
DecodeError   == [kind |-> "UnicodeDecodeError"]
ParseError    == [kind |-> "Exception"]

\* uploaded files: what pd.read_csv does with the file under each encoding
FileUtf8   == [name |-> "utf8.csv",
               read_csv |-> [e \in Range(encodings) |-> Parsed(Table1)]]
FileLatin1 == [name |-> "latin1.csv",
               read_csv |-> [e \in Range(encodings) |->
                               IF e = "utf-8" THEN DecodeError ELSE Parsed(Table2)]]
FileNull   == [name |-> "null.csv",
               read_csv |-> [e \in Range(encodings) |-> Parsed(NullTable)]]
FileBroken == [name |-> "broken.csv",
               read_csv |-> [e \in Range(encodings) |->
                               IF e = "utf-8" THEN DecodeError ELSE ParseError]]
Files == {FileUtf8, FileLatin1, FileNull, FileBroken}

ApiKeys == {"", "gsk_1"}

\* what self.agent.invoke does
Returns(v) == [kind |-> "return", value |-> v]
Raises(m)  == [kind |-> "raise", message |-> m]
NotInvoked == [kind |-> "not invoked"]

\* a text of n characters c
Repeat(c, n) == [i \in 1..n |-> c]

\* values the external agent returns
Dict(items) == [type |-> "dict", items |-> items]
ReturnValues ==
    { Dict([input |-> PyStr(<<"q">>), output |-> PyStr(<<"4","2">>)]),
      Dict([result |-> PyStr(<<"7"," ","r","o","w","s">>)]),
      Dict([steps |-> PyStr(<<"n","o","n","e">>)]),
      Dict([input |-> PyStr(<<"q">>), output |-> PyStr(<<" ">>)]),
      PyStr(<<"o","k">>),
      PyStr(<<>>),
      None,
      [type |-> "int", val |-> 7] }

\* str(e) of the exceptions the external agent raises
ErrorTexts ==
    { <<"b","o","o","m">>,
      <<>>,
      <<"C","o","u","l","d"," ","n","o","t"," ","p","a","r","s","e"," ","L","L","M"," ","o","u","t","p","u","t",":"," ","`","x","`">>,
      <<"C","o","l","u","m","n"," ","'","p","a","y","'"," ","n","o","t"," ","f","o","u","n","d">>,
      <<"E","r","r","o","r"," ","w","h","i","l","e"," ","p","a","r","s","i","n","g">>,
      Repeat("e", ErrorCap),
      Repeat("e", ErrorCap + 1),
      <<"C","o","u","l","d"," ","n","o","t"," ","p","a","r","s","e"," ","L","L","M"," ","o","u","t","p","u","t",":"," ","c","o","l","u","m","n"," ","x"," ","n","o","t"," ","f","o","u","n","d"," ","w","h","i","l","e"," ","p","a","r","s","i","n","g">>,
      <<"P","A","R","S","I","N","G"," ","f","a","i","l","e","d",":"," ","C","o","l","u","m","n"," ","'","a","'"," ","N","o","t"," ","F","o","u","n","d">>,
      <<"P","a","r","s","i","n","g">> \o Repeat("e", ErrorCap),
      <<"c","o","u","l","d"," ","n","o","t"," ","p","a","r","s","e"," ","l","l","m"," ","o","u","t","p","u","t">>,
      <<"n","o"," ","s","u","c","h"," ","c","o","l","u","m","n">> }

InvokeOutcomes == {Returns(v) : v \in ReturnValues} \cup {Raises(m) : m \in ErrorTexts}

\* questions put to DataAnalysisAgent.query
EdgeQuestion ==
    <<"t","o","p"," ","5"," ","b","y"," ","t","o","t","a","l","_","r","e","v","e","n","u","e","_","p","e","r","_","y","e","a","r"," ","f","o","r"," ","t","h","e"," ","c","u","s","t","o","m","e","r","s"," ","i","n"," ","t","h","e"," ","n","o","r","t","h","e","r","n"," ","r","e","g","i","o","n","s"," ","d","u","r","i","n","g"," ","l","a","s","t"," ","y","e","a","r">>
AgentQuestions ==
    { <<"s","h","o","w"," ","a","l","l"," ","r","o","w","s">>,
      <<"t","o","p"," ","5"," ","b","y"," ","a","g","e">>,
      <<"i"," ","w","a","n","t"," ","t","o"," ","k","n","o","w"," ","t","h","e"," ","a","g","e">>,
      <<"c","a","n"," ","y","o","u"," ","s","h","o","w"," ","m","e"," ","t","h","e"," ","d","a","t","a">>,
      <<"t","e","l","l"," ","m","e"," ","a","b">>,
      <<" ","s","h","o","w"," ","x"," ">>,
      EdgeQuestion }

-----------------------------------------------------------------------------
(* The state before any operation.                                          *)

Idle ==
    /\ query_history = <<>>
    /\ ss_df = None
    /\ ss_agent = None
    /\ data_loaded = FALSE
    /\ api_key = ""
    /\ uploaded_file = None
    /\ now = 0
    /\ op = [name |-> "start"]
    /\ ret = None
    /\ invoked = None
    /\ attempts = 0

session == <<ss_df, ss_agent, data_loaded, api_key, uploaded_file>>
tracker == <<query_history, now, attempts>>

-----------------------------------------------------------------------------
(* SpecNorm: normalize_query applied to a question.                         *)

NormPrefixes == {<<"h","o","w"," ","m","a","n","y"," ">>, <<"H","o","w"," ","m","a","n","y"," ">>, <<"H","O","W"," ","M","A","N","Y"," ">>}
NormItems    == {<<"e","m","p","l","o","y","e","e","s">>, <<"S","a","l","e","s">>, <<"e","x","p">>, <<"x","_","1">>, <<"r","o","w","s">>}
NormGroups   == {<<"d","e","p","a","r","t","m","e","n","t">>, <<"R","e","g","i","o","n">>, <<"d","e","p","t">>, <<"g","r","o","u","p">>}
HowManyEach(p, x, y) == p \o x \o <<" ","i","n"," ","e","a","c","h"," ">> \o y

WherePrefixes  == {<<"w","h","e","r","e"," ","i","s"," ">>, <<"W","h","e","r","e"," ","a","r","e"," ">>, <<"w","h","e","r","e"," ","a","r","e"," ">>}
WhereConditions == {<<"s","a","l","a","r","y"," ","a","b","o","v","e"," ","5">>, <<"t","h","e"," ","o","f","f","i","c","e","s">>, <<"A","g","e"," ",">"," ","3","0">>,
                    <<"d","e","p","t"," ","e","q","u","a","l"," ","t","o"," ","h","r">>, <<"x">>}
WhereIs(p, c) == p \o c

\* "top N [by] C" and "sort [the] top N by|rows by C"
TopNumbers  == {<<"5">>, <<"1","0">>}
TopColumns  == {<<"a","g","e">>, <<"S","a","l","a","r","y">>, <<"e","x","p">>, <<"g","r","o","u","p">>, <<"u","n","i","t","_","p","r","i","c","e">>}
TopJoins    == {<<" ","b","y"," ">>, <<" ">>}
SortTopPrefixes == {<<"s","o","r","t"," ","t","o","p"," ">>, <<"s","o","r","t"," ","t","h","e"," ","t","o","p"," ">>, <<"S","o","r","t"," ","T","h","e"," ","T","o","p"," ">>}
SortTopJoins    == {<<" ","b","y"," ">>, <<" ","r","o","w","s"," ","b","y"," ">>}
Top(n, j, c) == <<"t","o","p"," ">> \o n \o j \o c
SortTop(p, n, j, c) == p \o n \o j \o c
TopQuestions ==
    {Top(n, j, c) : n \in TopNumbers, j \in TopJoins, c \in TopColumns}
SortTopQuestions ==
    {SortTop(p, n, j, c) : p \in SortTopPrefixes, n \in TopNumbers,
                           j \in SortTopJoins, c \in TopColumns}

NormQuestions ==
    {HowManyEach(p, x, y) : p \in NormPrefixes, x \in NormItems, y \in NormGroups}
    \cup {WhereIs(p, c) : p \in WherePrefixes, c \in WhereConditions}
    \cup TopQuestions \cup SortTopQuestions

NormInit ==
    /\ query_history = <<>> /\ ss_df = None /\ ss_agent = None
    /\ data_loaded = FALSE /\ api_key = "" /\ uploaded_file = None
    /\ now = 0 /\ invoked = None /\ attempts = 0
    /\ ret = None
    /\ op \in {[name |-> "question", question |-> q] : q \in NormQuestions}

Normalize ==
    /\ op.name = "question"
    /\ op' = [name |-> "normalize_query", question |-> op.question]
    /\ ret' = normalize_query(op.question)
    /\ UNCHANGED <<session, tracker, invoked>>

NormNext == Normalize
SpecNorm == NormInit /\ [][NormNext]_vars

-----------------------------------------------------------------------------
(* SpecTracker: the operations of QueryTracker.                             *)

TrackerQueries == {<<"q","1">>, <<"q","2">>}
TrackerOutcomes == {<<TRUE, None>>, <<FALSE, PyStr(<<"b","o","o","m">>)>>}

LogQuery(q, success, error_msg) ==
    /\ now < MaxLogs
    /\ query_history' = log_query(query_history, q, success, error_msg, now)
    /\ now' = now + 1
    /\ attempts' = attempts + 1
    /\ op' = [name |-> "log_query", query |-> q, success |-> success,
              error |-> error_msg]
    /\ ret' = None
    /\ UNCHANGED <<session, invoked>>

ClearHistory ==
    /\ query_history' = clear_history(query_history)
    /\ attempts' = 0
    /\ op' = [name |-> "clear_history"]
    /\ ret' = None
    /\ UNCHANGED <<session, invoked, now>>

GetSuccessRate ==
    /\ op' = [name |-> "get_success_rate"]
    /\ ret' = get_success_rate(query_history)
    /\ UNCHANGED <<session, tracker, invoked>>

GetTotalQueries ==
    /\ op' = [name |-> "get_total_queries"]
    /\ ret' = get_total_queries(query_history)
    /\ UNCHANGED <<session, tracker, invoked>>

GetRecentQueries(n) ==
    /\ op' = [name |-> "get_recent_queries", n |-> n]
    /\ ret' = get_recent_queries(query_history, n)
    /\ UNCHANGED <<session, tracker, invoked>>

GetFailureQueries ==
    /\ op' = [name |-> "get_failure_queries"]
    /\ ret' = get_failure_queries(query_history)
    /\ UNCHANGED <<session, tracker, invoked>>

TrackerNext ==
    \/ \E q \in TrackerQueries, o \in TrackerOutcomes : LogQuery(q, o[1], o[2])
    \/ ClearHistory
    \/ GetSuccessRate
    \/ GetTotalQueries
    \/ \E n \in 0..MaxN : GetRecentQueries(n)
    \/ GetFailureQueries

SpecTracker == Idle /\ [][TrackerNext]_vars

-----------------------------------------------------------------------------
(* SpecAgent: the operations of one DataAnalysisAgent, held in ss_agent.    *)

AgentTables == {normalize_column_names(Table1), normalize_column_names(Table2)}

AgentInit ==
    /\ query_history = <<>> /\ ss_df = None /\ data_loaded = FALSE
    /\ api_key = "" /\ uploaded_file = None /\ now = 0 /\ attempts = 0
    /\ ss_agent = NewDataAnalysisAgent("gsk_1")
    /\ op = [name |-> "__init__"]
    /\ ret = None
    /\ invoked = None

InitializeAgent(df) ==
    /\ ss_agent' = initialize_agent(ss_agent, df)
    /\ op' = [name |-> "initialize_agent"]
    /\ ret' = None
    /\ invoked' = None
    /\ UNCHANGED <<query_history, now, attempts, ss_df, data_loaded, api_key,
                   uploaded_file>>

Returned(question, outcome, r) ==
    /\ op' = [name |-> "query", question |-> question, outcome |-> outcome]
    /\ ret' = r.return
    /\ invoked' = r.invoked
    /\ UNCHANGED <<session, tracker>>
Query(question, outcome) == Returned(question, outcome, query(ss_agent, question, outcome))

AgentNext ==
    \/ \E df \in AgentTables : InitializeAgent(df)
    \/ \E q \in AgentQuestions :
          \E o \in (IF ss_agent.agent = None THEN {NotInvoked} ELSE InvokeOutcomes) :
              Query(q, o)

SpecAgent == AgentInit /\ [][AgentNext]_vars

-----------------------------------------------------------------------------
(* Spec: the application.  Each action is one event of the user followed by *)
(* the run of the script it triggers.                                       *)

AppQuestions == {<<>>, <<"s","h","o","w"," ","a","l","l"," ","r","o","w","s">>, <<"T","o","p"," ","5"," ","b","y"," ","A","g","e">>}
AppOutcomes  == {Returns(PyStr(<<"o","k">>)), Raises(<<"b","o","o","m">>)}

Init == Idle

\* the user types an API key into the sidebar
SetApiKey(key) ==
    /\ RunScript(uploaded_file, key)
    /\ op' = [name |-> "api_key"]
    /\ ret' = None
    /\ invoked' = None
    /\ UNCHANGED tracker

\* the user puts a file into the uploader, or takes it out (None)
Upload(file) ==
    /\ RunScript(file, api_key)
    /\ op' = [name |-> "upload"]
    /\ ret' = None
    /\ invoked' = None
    /\ UNCHANGED tracker

\* the "Clear History" button: clear_history, then st.rerun()
ClickClear ==
    /\ query_history' = clear_history(query_history)
    /\ attempts' = 0
    /\ RunScript(uploaded_file, api_key)
    /\ op' = [name |-> "clear_history"]
    /\ ret' = None
    /\ invoked' = None
    /\ UNCHANGED now

\* the "Analyze" button, shown once data is loaded and a key is entered,
\* with the text of the question box; r is what agent.query returns
Analyzed_on_success_only(question, r) ==
    IF question # <<>> /\ r.return.success
    THEN /\ ret' = r.return
         /\ invoked' = r.invoked
         /\ query_history' = log_query(query_history, question,
                                       r.return.success, r.return.error, now)
         /\ now' = now + 1
         /\ attempts' = attempts + 1
    ELSE /\ ret' = IF question # <<>> THEN r.return ELSE None
         /\ invoked' = IF question # <<>> THEN r.invoked ELSE None
         /\ UNCHANGED tracker
Analyzed(question, r) ==
    IF question # <<>>
    THEN /\ ret' = r.return
         /\ invoked' = r.invoked
         /\ query_history' = log_query(query_history, question,
                                       r.return.success, r.return.error, now)
         /\ now' = now + 1
         /\ attempts' = attempts + 1
    ELSE /\ ret' = None
         /\ invoked' = None
         /\ UNCHANGED tracker

ClickAnalyze(question, outcome) ==
    /\ data_loaded /\ api_key # ""
    /\ now < MaxAttempts
    /\ RunScript(uploaded_file, api_key)
    /\ op' = [name |-> "analyze", question |-> question, outcome |-> outcome]
    /\ Analyzed(question, query(ss_agent', question, outcome))

Next ==
    \/ \E key \in ApiKeys : SetApiKey(key)
    \/ \E file \in Files \cup {None} : Upload(file)
    \/ ClickClear
    \/ \E q \in AppQuestions, o \in AppOutcomes : ClickAnalyze(q, o)

Spec == Init /\ [][Next]_vars

-----------------------------------------------------------------------------
(* SpecLoad: load_csv_file, one step per pass of its loop over encodings.   *)
(* op.tried lists the encodings attempted so far, op.done says whether the  *)
(* function has returned, and ret is what it returned.                      *)

\* what a pass of the loop leaves when it returns on a parse failure instead
\* of moving on
LoopPass_returning_on_parse_failure(file, tried) ==
    IF file.read_csv[encodings[Len(tried) + 1]].kind = "ok"
    THEN [tried |-> Append(tried, encodings[Len(tried) + 1]), done |-> TRUE,
          ret |-> normalize_column_names(file.read_csv[encodings[Len(tried) + 1]].df)]
    ELSE [tried |-> Append(tried, encodings[Len(tried) + 1]),
          done |-> file.read_csv[encodings[Len(tried) + 1]].kind = "Exception",
          ret |-> None]
\* one pass of the loop, for the next encoding: return the normalized table,
\* or continue after UnicodeDecodeError and after any other Exception
LoopPass(file, tried) ==
    IF file.read_csv[encodings[Len(tried) + 1]].kind = "ok"
    THEN [tried |-> Append(tried, encodings[Len(tried) + 1]), done |-> TRUE,
          ret |-> normalize_column_names(file.read_csv[encodings[Len(tried) + 1]].df)]
    ELSE [tried |-> Append(tried, encodings[Len(tried) + 1]), done |-> FALSE,
          ret |-> None]

ReadOutcomes == {Parsed(Table1), Parsed(Table2), DecodeError, ParseError}
LoadFiles ==
    {[name |-> "data.csv", read_csv |-> r] : r \in [Range(encodings) -> ReadOutcomes]}

LoadInit ==
    /\ query_history = <<>> /\ ss_df = None /\ ss_agent = None
    /\ data_loaded = FALSE /\ api_key = "" /\ uploaded_file = None
    /\ now = 0 /\ invoked = None /\ attempts = 0
    /\ ret = None
    /\ op \in {[name |-> "file", file |-> f] : f \in LoadFiles \cup {None}}

\* the call, up to the loop
LoadCall ==
    /\ op.name = "file"
    /\ op' = [name |-> "load_csv_file", file |-> op.file, tried |-> <<>>,
              done |-> op.file = None]
    /\ ret' = None
    /\ UNCHANGED <<session, tracker, invoked>>

LoadPassed(p) ==
    /\ op' = [op EXCEPT !.tried = p.tried, !.done = p.done]
    /\ ret' = p.ret
TryEncoding ==
    /\ op.name = "load_csv_file" /\ ~ op.done
    /\ Len(op.tried) < Len(encodings)
    /\ LoadPassed(LoopPass(op.file, op.tried))
    /\ UNCHANGED <<session, tracker, invoked>>

\* the loop ran out of encodings
LoadExhausted ==
    /\ op.name = "load_csv_file" /\ ~ op.done
    /\ Len(op.tried) = Len(encodings)
    /\ op' = [op EXCEPT !.done = TRUE]
    /\ ret' = None
    /\ UNCHANGED <<session, tracker, invoked>>

LoadNext == LoadCall \/ TryEncoding \/ LoadExhausted
SpecLoad == LoadInit /\ [][LoadNext]_vars

-----------------------------------------------------------------------------
(* SpecValidate: validate_dataframe applied to a table, or to None.         *)

Cells == {None, PyStr(<<"x">>)}
ColumnNames(c) == [i \in 1..c |-> Repeat("c", i)]
TablesOf(c, n) ==
    {[columns |-> ColumnNames(c), rows |-> r] : r \in [1..n -> [1..c -> Cells]]}
Tables == UNION {TablesOf(c, n) : c \in 0..MaxCols, n \in 0..MaxRows}

ValidateInit ==
    /\ query_history = <<>> /\ ss_df = None /\ ss_agent = None
    /\ data_loaded = FALSE /\ api_key = "" /\ uploaded_file = None
    /\ now = 0 /\ invoked = None /\ attempts = 0
    /\ ret = None
    /\ op \in {[name |-> "table", df |-> t] : t \in Tables \cup {None}}

Validate ==
    /\ op.name = "table"
    /\ op' = [name |-> "validate_dataframe", df |-> op.df]
    /\ ret' = validate_dataframe(op.df)
    /\ UNCHANGED <<session, tracker, invoked>>

ValidateNext == Validate
SpecValidate == ValidateInit /\ [][ValidateNext]_vars

-----------------------------------------------------------------------------
(* The claims.                                                              *)

Successes(history) == Len(SelectSeq(history, LAMBDA q : q.success))
Failures(history)  == Len(SelectSeq(history, LAMBDA q : ~ q.success))
Min2(a, b) == IF a < b THEN a ELSE b

\* C1 (Spec): every query attempt submitted through the query interface (the
\* Analyze button with a non-empty question) appends exactly one entry to the
\* history, holding the question as typed, the success flag and the error
\* text that agent.query returned, whatever the outcome; an event that is no
\* attempt appends nothing.
C1_AttemptStep ==
    IF op'.name = "analyze" /\ op'.question # <<>>
    THEN /\ Len(query_history') = Len(query_history) + 1
         /\ SubSeq(query_history', 1, Len(query_history)) = query_history
         /\ query_history'[Len(query_history')].query = op'.question
         /\ query_history'[Len(query_history')].success = ret'.success
         /\ query_history'[Len(query_history')].error = ret'.error
         /\ ret'.success = (op'.outcome.kind = "return")
    ELSE query_history' \in {query_history, <<>>}
C1_LoggedExactlyOnce == [][C1_AttemptStep]_vars

\* a failed attempt that follows another attempt, both in the history
C1_Witness ==
    /\ op.name = "analyze" /\ op.question # <<>>
    /\ op.outcome.kind = "raise"
    /\ Len(query_history) = 2
    /\ ~ query_history[2].success
    /\ query_history[2].query # normalize_query(query_history[2].query)

\* C2 (SpecTracker): log_query makes the history one entry longer, the new
\* entry is last and holds the given query, success and error, and every
\* earlier entry keeps its position and contents; get_success_rate,
\* get_total_queries, get_recent_queries and get_failure_queries leave the
\* history as it is.
C2_TrackerStep ==
    /\ op'.name = "log_query" =>
          /\ Len(query_history') = Len(query_history) + 1
          /\ \A i \in 1..Len(query_history) : query_history'[i] = query_history[i]
          /\ query_history'[Len(query_history')].query = op'.query
          /\ query_history'[Len(query_history')].success = op'.success
          /\ query_history'[Len(query_history')].error = op'.error
    /\ op'.name \in {"get_success_rate", "get_total_queries",
                     "get_recent_queries", "get_failure_queries"} =>
          query_history' = query_history
C2_AppendOnly == [][C2_TrackerStep]_vars

\* a log after which two earlier entries are still in place
C2_Witness ==
    /\ op.name = "log_query"
    /\ Len(query_history) = 3
    /\ query_history[1].query # query_history[3].query

\* C3 (SpecTracker): get_success_rate returns 0.0 for an empty history and
\* otherwise 100 * (entries with success) / (entries); it lies in [0, 100]
\* and is 60.0 after 3 successes and 2 failures.
C3_SuccessRate ==
    op.name = "get_success_rate" =>
        /\ ret.den > 0
        /\ query_history = <<>> => ret.num = 0
        /\ ret.num * Len(query_history) = 100 * Successes(query_history) * ret.den
        /\ 0 <= ret.num /\ ret.num <= 100 * ret.den
        /\ (Successes(query_history) = 3 /\ Failures(query_history) = 2) =>
               ret.num = 60 * ret.den

\* the rate asked after 3 successes and 2 failures
C3_Witness ==
    /\ op.name = "get_success_rate"
    /\ Successes(query_history) = 3 /\ Failures(query_history) = 2
    /\ ret.num = 60 * ret.den

\* C4 (SpecTracker): get_total_queries is the number of log_query calls since
\* the last clear_history (or since the start); right after clear_history the
\* history is empty, the total is 0, the rate 0.0 and the failures empty; and
\* every entry of the history was logged after the last clear.
C4_TotalSinceClear ==
    /\ get_total_queries(query_history) = attempts
    /\ op.name = "get_total_queries" => ret = attempts
    /\ op.name = "clear_history" =>
          /\ query_history = <<>>
          /\ get_total_queries(query_history) = 0
          /\ get_success_rate(query_history).num = 0
          /\ get_failure_queries(query_history) = <<>>
    /\ \A i \in 1..Len(query_history) :
          query_history[i].timestamp >= now - attempts

\* the total asked after a clear and two later logs
C4_Witness ==
    /\ op.name = "get_total_queries"
    /\ ret = 2
    /\ now > attempts

\* C5 (SpecTracker): for every n >= 0, get_recent_queries(n) returns the last
\* min(n, len(history)) entries, oldest first, n = 0 included.
C5_RecentLastN ==
    op.name = "get_recent_queries" =>
        ret = SubSeq(query_history,
                     Len(query_history) - Min2(op.n, Len(query_history)) + 1,
                     Len(query_history))

\* C6 (SpecAgent): the text handed to the agent is built from the normalized
\* question only when that differs from the question and is longer than 70%
\* of it, and from the question as given whenever the normalized form is
\* shorter than 70% of it.
C6_AcceptanceRule ==
    (op.name = "query" /\ invoked # None) =>
        /\ invoked.val \in {Enhance(op.question), Enhance(normalize_query(op.question))}
        /\ invoked.val # Enhance(op.question) =>
              /\ normalize_query(op.question) # op.question
              /\ 10 * Len(normalize_query(op.question)) > 7 * Len(op.question)
        /\ 10 * Len(normalize_query(op.question)) < 7 * Len(op.question) =>
              invoked.val = Enhance(op.question)

\* C7 (SpecAgent): when the external agent raises, query returns
\* success = false, no result and a non-empty error text, and leaves the
\* DataAnalysisAgent as it was.
C7_FailureCaught ==
    (op.name = "query" /\ op.outcome.kind = "raise") =>
        /\ ret.success = FALSE
        /\ ret.result = None
        /\ ret.error # None
        /\ ret.error.val # <<>>
        /\ ss_agent.agent # None

\* C8 (SpecAgent): a query before initialize_agent does not invoke the agent;
\* it returns success = false with the "Agent not initialized" error.  After
\* initialize_agent the agent exists over the given table, and a query is
\* handed to it.
C8_NotInitialized ==
    /\ op.name = "query" =>
          IF ss_agent.agent = None
          THEN /\ invoked = None
               /\ ret.success = FALSE
               /\ ret.result = None
               /\ ret.error = PyStr(<<"A","g","e","n","t"," ","n","o","t"," ","i","n","i","t","i","a","l","i","z","e","d","."," ","P","l","e","a","s","e"," ","u","p","l","o","a","d"," ","a"," ","C","S","V"," ","f","i","r","s","t",".">>)
          ELSE /\ invoked # None
               /\ invoked.val \in {Enhance(op.question),
                                   Enhance(normalize_query(op.question))}
    /\ op.name = "initialize_agent" =>
          /\ ss_agent.agent # None
          /\ ss_agent.agent.df = ss_agent.df

\* a query turned away for want of an agent
C8_Witness ==
    /\ op.name = "query"
    /\ ss_agent.agent = None
    /\ ret.success = FALSE
    /\ invoked = None

\* C9 (SpecNorm): for a question "how many X in each Y", X and Y single
\* words in any letter case, normalize_query gives "count X in each Y" (X
\* and Y in lower case), with no later rule changing it.
C9_HowManyEach ==
    op.name = "normalize_query" =>
        \A p \in NormPrefixes, x \in NormItems, y \in NormGroups :
            op.question = HowManyEach(p, x, y) =>
                ret = <<"c","o","u","n","t"," ">> \o Lower(x) \o <<" ","i","n"," ","e","a","c","h"," ">> \o Lower(y)

\* C10 (SpecNorm): for a question "where is C" or "where are C",
\* normalize_query gives "show rows where C", C in lower case.
C10_WhereRows ==
    op.name = "normalize_query" =>
        \A p \in WherePrefixes, c \in WhereConditions :
            op.question = WhereIs(p, c) =>
                ret = <<"s","h","o","w"," ","r","o","w","s"," ","w","h","e","r","e"," ">> \o Lower(c)

\* C11 (SpecNorm): for a question "top N [by] C" and for a question
\* "sort [the] top N by C" or "sort [the] top N rows by C", N a number and C
\* a single word, normalize_query gives "sort by C descending and show first
\* N rows" (C in lower case), the same text for both forms.
TopRewrite(n, c) ==
    <<"s","o","r","t"," ","b","y"," ">> \o Lower(c) \o <<" ","d","e","s","c","e","n","d","i","n","g"," ","a","n","d"," ","s","h","o","w"," ","f","i","r","s","t"," ">> \o n \o <<" ","r","o","w","s">>
C11_TopRewrite ==
    op.name = "normalize_query" =>
        \A n \in TopNumbers, c \in TopColumns :
            /\ \A j \in TopJoins :
                  op.question = Top(n, j, c) => ret = TopRewrite(n, c)
            /\ \A p \in SortTopPrefixes, j \in SortTopJoins :
                  op.question = SortTop(p, n, j, c) => ret = TopRewrite(n, c)

\* the encodings under which pd.read_csv parses the file, by position
ParsingEncodings(file) ==
    {k \in 1..Len(encodings) : file.read_csv[encodings[k]].kind = "ok"}

\* C12 (SpecLoad): load_csv_file attempts the encodings in the order utf-8,
\* latin-1, iso-8859-1, cp1252, each at most once; every attempt before the
\* last one made failed (with a decode error or another exception), so no
\* encoding is tried after one parsed; it returns the normalized table of
\* the first encoding that parses, having tried exactly the encodings up to
\* that one, and returns None exactly when all four attempts fail.
C12_EncodingOrder ==
    (op.name = "load_csv_file" /\ op.file # None) =>
        /\ Len(op.tried) <= Len(encodings)
        /\ \A i \in 1..Len(op.tried) : op.tried[i] = encodings[i]
        /\ \A i \in 1..(Len(op.tried) - 1) : i \notin ParsingEncodings(op.file)
        /\ ~ op.done => ret = None /\ \A i \in 1..Len(op.tried) : i \notin ParsingEncodings(op.file)
        /\ op.done =>
              /\ (ret = None) <=> (ParsingEncodings(op.file) = {})
              /\ ret = None => op.tried = encodings
              /\ ret # None =>
                    /\ Len(op.tried) = SetMin(ParsingEncodings(op.file))
                    /\ ret = normalize_column_names(
                                 op.file.read_csv[encodings[Len(op.tried)]].df)
              /\ ret = load_csv_file(op.file)

\* a file read at the third attempt, after a decode error and a parse failure
C12_Witness ==
    /\ op.name = "load_csv_file" /\ op.file # None /\ op.done
    /\ op.file.read_csv["utf-8"].kind = "UnicodeDecodeError"
    /\ op.file.read_csv["latin-1"].kind = "Exception"
    /\ op.tried = <<"utf-8", "latin-1", "iso-8859-1">>
    /\ ret # None
    /\ op.file.read_csv["cp1252"].kind = "ok"

\* the table has a cell that is not null
HasValue(df) ==
    \E r \in 1..Len(df.rows) : \E c \in 1..Len(df.columns) : df.rows[r][c] # None
\* the table is absent, has no rows, has no columns, or holds only nulls
Unusable(df) ==
    IF df = None THEN TRUE
    ELSE Len(df.rows) = 0 \/ Len(df.columns) = 0 \/ ~ HasValue(df)

\* C13 (SpecValidate): validate_dataframe returns (False, a non-empty reason)
\* for None, for a table with no rows, for a table with no columns and for
\* a table whose every cell is null; it returns (True, "") for every table
\* with a row, a column and a cell that is not null; the flag is True
\* exactly when the reason is empty.
C13_Validate ==
    op.name = "validate_dataframe" =>
        /\ Unusable(op.df) => (ret[1] = FALSE /\ ret[2] # <<>>)
        /\ ~ Unusable(op.df) => ret = <<TRUE, <<>>>>
        /\ ret[1] <=> (ret[2] = <<>>)

\* a table of two rows and two columns, all null, turned away
C13_Witness ==
    /\ op.name = "validate_dataframe"
    /\ op.df # None
    /\ Len(op.df.rows) = 2 /\ Len(op.df.columns) = 2
    /\ ~ HasValue(op.df)
    /\ ret = <<FALSE, <<"A","l","l"," ","v","a","l","u","e","s"," ","a","r","e"," ","n","u","l","l">>>>

\* the raw error text names none of the three recognised errors
Unrecognized(raw) ==
    /\ ~ Contains(raw, <<"C","o","u","l","d"," ","n","o","t"," ","p","a","r","s","e"," ","L","L","M"," ","o","u","t","p","u","t">>)
    /\ ~ (Contains(Lower(raw), <<"c","o","l","u","m","n">>) /\ Contains(Lower(raw), <<"n","o","t"," ","f","o","u","n","d">>))
    /\ ~ Contains(Lower(raw), <<"p","a","r","s","i","n","g">>)
SimplerPhrasingText ==
    <<"T","h","e"," ","A","I"," ","i","s"," ","h","a","v","i","n","g"," ","t","r","o","u","b","l","e"," ","u","n","d","e","r","s","t","a","n","d","i","n","g"," ","t","h","i","s"," ","q","u","e","r","y","."," ","T","r","y"," ","u","s","i","n","g"," ","s","i","m","p","l","e","r"," ","p","h","r","a","s","i","n","g"," ","l","i","k","e"," ","'","s","h","o","w"," ","f","i","r","s","t"," ","5"," ","r","o","w","s","'"," ","o","r"," ","'","c","a","l","c","u","l","a","t","e"," ","a","v","e","r","a","g","e"," ","s","a","l","a","r","y","'",".">>
RephraseText ==
    <<"Q","u","e","r","y"," ","f","o","r","m","a","t"," ","i","s","s","u","e","."," ","T","r","y"," ","r","e","p","h","r","a","s","i","n","g"," ","m","o","r","e"," ","s","i","m","p","l","y",","," ","l","i","k","e"," ","'","s","h","o","w"," ","r","o","w","s"," ","w","h","e","r","e"," ","s","a","l","a","r","y"," ",">"," ","8","0","0","0","0","'",".">>
RephraseHint == <<".",".","."," ","(","T","r","y"," ","a"," ","s","i","m","p","l","e","r"," ","q","u","e","r","y",")">>
ColumnsText(df) ==
    <<"C","o","l","u","m","n"," ","n","o","t"," ","f","o","u","n","d","."," ","A","v","a","i","l","a","b","l","e"," ","c","o","l","u","m","n","s"," ","a","r","e",":"," ">> \o Join(df.columns, <<","," ">>)
\* the error text that the classification of a raw text asks for
Classified(raw, df) ==
    CASE Contains(raw, <<"C","o","u","l","d"," ","n","o","t"," ","p","a","r","s","e"," ","L","L","M"," ","o","u","t","p","u","t">>) -> SimplerPhrasingText
      [] /\ ~ Contains(raw, <<"C","o","u","l","d"," ","n","o","t"," ","p","a","r","s","e"," ","L","L","M"," ","o","u","t","p","u","t">>)
         /\ Contains(Lower(raw), <<"c","o","l","u","m","n">>) /\ Contains(Lower(raw), <<"n","o","t"," ","f","o","u","n","d">>)
            -> ColumnsText(df)
      [] /\ ~ Contains(raw, <<"C","o","u","l","d"," ","n","o","t"," ","p","a","r","s","e"," ","L","L","M"," ","o","u","t","p","u","t">>)
         /\ ~ (Contains(Lower(raw), <<"c","o","l","u","m","n">>) /\ Contains(Lower(raw), <<"n","o","t"," ","f","o","u","n","d">>))
         /\ Contains(Lower(raw), <<"p","a","r","s","i","n","g">>)
            -> RephraseText
      [] Unrecognized(raw) /\ Len(raw) > 200 -> SubSeq(raw, 1, 200) \o RephraseHint
      [] Unrecognized(raw) /\ Len(raw) <= 200 -> raw

\* C14 (SpecAgent): when the agent raises, the error text of the result is
\* the first that applies of: the simpler-phrasing message if the raw text
\* contains "Could not parse LLM output"; the message listing the table's
\* columns if it contains "column" and "not found" in any letter case; the
\* rephrase message if it contains "parsing" in any letter case; its first
\* 200 characters and the rephrase hint if it is longer than 200 characters;
\* the raw text itself otherwise.
C14_ErrorClassified ==
    (op.name = "query" /\ op.outcome.kind = "raise") =>
        /\ ret.error = PyStr(Classified(op.outcome.message, ss_agent.df))
        /\ (Unrecognized(op.outcome.message) /\ Len(op.outcome.message) <= 200) =>
              ret.error.val = op.outcome.message
        /\ Unrecognized(op.outcome.message) =>
              \/ ret.error.val = op.outcome.message /\ Len(ret.error.val) <= 200
              \/ /\ Len(ret.error.val) = 200 + Len(RephraseHint)
                 /\ SubSeq(ret.error.val, 1, 200) = SubSeq(op.outcome.message, 1, 200)

\* an error naming both a missing column and parsing, answered with the columns
C14_Witness ==
    /\ op.name = "query" /\ op.outcome.kind = "raise"
    /\ Contains(Lower(op.outcome.message), <<"p","a","r","s","i","n","g">>)
    /\ Contains(Lower(op.outcome.message), <<"n","o","t"," ","f","o","u","n","d">>)
    /\ ret.error = PyStr(ColumnsText(ss_agent.df))
    /\ Len(ss_agent.df.columns) = 2

\* the file in the uploader cannot be loaded, or loads to an unusable table
Rejected(file) == file # None /\ Unusable(load_csv_file(file))

\* C15 (Spec): a run of the script whose uploaded file fails to load or
\* fails validation leaves the session's table and its data_loaded flag as
\* they were; the session's table changes only to the table loaded from the
\* uploaded file, and only when that table is usable; so the table held by
\* the session is never an unusable one, and data_loaded is set with it.
C15_UploadStep ==
    /\ Rejected(uploaded_file') => (ss_df' = ss_df /\ data_loaded' = data_loaded)
    /\ ss_df' # ss_df =>
          /\ uploaded_file' # None
          /\ ss_df' = load_csv_file(uploaded_file')
          /\ ~ Unusable(ss_df')
    /\ ss_df' # None => (~ Unusable(ss_df') /\ data_loaded')
    /\ data_loaded' => ss_df' # None
C15_RejectedUploadKeepsSession == [][C15_UploadStep]_vars

\* an all-null file turned away while the session holds an earlier table
C15_Witness ==
    /\ op.name = "upload"
    /\ uploaded_file = FileNull
    /\ ss_df = normalize_column_names(Table1)
    /\ data_loaded

\* C16 (Spec): whenever a query is handed to the agent, the table the agent
\* was initialised with is the table the session holds, that of the last
\* accepted upload.
C16_AgentTableCurrent ==
    (op.name = "analyze" /\ invoked # None) =>
        /\ ss_agent.df = ss_df
        /\ ss_agent.agent.df = ss_df

====
